---- MODULE Spec2Model ----
(***************************************************************************)
(* A model of the ECS scheduler of src/ecs/ecs.go: the two priority        *)
(* ordered registries (updaters, drawers), registration (AddSystem,        *)
(* AddSystems, AddScript) and the two dispatch passes (Update, Draw).      *)
(*                                                                         *)
(* Slices are modelled as Go implements them: a registry is the visible    *)
(* contents (a sequence) plus the capacity of its backing array.  A range  *)
(* loop evaluates its slice once; while the registry still lives in the    *)
(* same backing array, an append that fits the capacity and the sort that  *)
(* follows it rewrite the very array the loop is reading.                  *)
(*                                                                         *)
(* A participant's Update/Draw is user code that receives the ECS: it may  *)
(* return, panic, or register a system before it returns.                  *)
(***************************************************************************)
EXTENDS Integers, Sequences, FiniteSets, TLC

\* ---------------------------------------------------------------- bounds
\* number of successful registrations made after NewECS
MaxReg == 2
\* the same, where registration during a pass is explored in depth
MaxRegDeep == 3
\* number of Update() calls
MaxTicks == 2
\* number of attached scripts
MaxScripts == 2
\* registrations explored together with script attachment
MaxRegScripts == 1

\* ------------------------------------------------------------ input sets
NoImage == "nil"
Images == {"imgA", "imgB"}
Screen == "screen"
Priorities == {-1, 0, 1}

\* system objects handed to AddSystem: the built-in script system, an
\* Updater-only object, a Drawer-only object, one implementing both
\* interfaces and one implementing neither
ScriptSystem == "script"
UserSystems == {"upd", "drw", "both", "none"}

NilOpts == [isNil |-> TRUE, Priority |-> 0, Image |-> NoImage]
SomeOpts == [isNil : {FALSE}, Priority : Priorities, Image : Images \cup {NoImage}]
OptsInputs == {NilOpts} \cup SomeOpts
\* options a participant registers with from inside a pass
BodyOpts == [isNil : {FALSE}, Priority : Priorities, Image : {NoImage, "imgA"}]

\* ----------------------------------------------------------------- state
VARIABLES
    updaters,     \* ecs.updaters: the visible entries, in slice order
    updCap,       \* cap(ecs.updaters)
    drawers,      \* ecs.drawers
    drwCap,       \* cap(ecs.drawers)
    nextId,       \* identity given to the next allocated entry
    scripts,      \* the script system's bindings
    clock,        \* how many times ecs.Time.Update() ran
    pc,           \* "idle", "update" (inside Update's loop), "draw"
    idx,          \* index the running range loop reads next
    rangeView,    \* the array cells the running range loop iterates
    rangeShared,  \* whether the registry still uses that backing array
    screen,       \* the screen argument of the running Draw
    calls,        \* invocations made by the current (or last) pass
    passKind,     \* "none", "update", "draw": the current (or last) pass
    passEnd,      \* "none", "running", "returned", "panicked"
    passStart,    \* the registry the pass iterates, as it was at its start
    passReg,      \* whether a participant registered during the pass
    prevPassReg,  \* history: whether one did during the pass right before
                  \* this one; kept only by the specifications that ask for it
    passNextId,   \* nextId as it was when the pass began
    ticksEnded,   \* Update() calls that ended, by return or by panic
    store,        \* the entities alive in the world
    scriptCalls,  \* per-entity script invocations of the current (or last) pass
    everCalled,   \* the entities some script was ever invoked on
    lastOp        \* the last call: its system, priority and whether it panicked

vars == <<updaters, updCap, drawers, drwCap, nextId, scripts, clock, pc, idx,
          rangeView, rangeShared, screen, calls, passKind, passEnd, passStart,
          passReg, prevPassReg, passNextId, ticksEnded, store, scriptCalls,
          everCalled,
          lastOp>>

\* ------------------------------------------------------ type assertions
\* system.(Updater) succeeds
IsUpdater(system) == system \in {ScriptSystem, "upd", "both"}

\* system.(Drawer) succeeds
IsDrawer(system) == system \in {ScriptSystem, "drw", "both"}

\* ------------------------------------------------------------- sorting
\* a comparison that also holds for equal priorities (ties are reversed)
UpdaterLessOrEqual(a, b) == a.Priority >= b.Priority

\* the less function handed to sort.SliceStable for updaters
UpdaterLess(a, b) == a.Priority > b.Priority

\* a drawers' comparison that sorts by increasing priority
DrawerLessAscending(a, b) == a.Priority < b.Priority

\* the same slip in the drawers' comparison
DrawerLessOrEqual(a, b) == a.Priority >= b.Priority

\* the less function handed to sort.SliceStable for drawers
DrawerLess(a, b) == a.Priority > b.Priority

\* sort.SliceStable on updaters, as its insertion sort computes it: each
\* element in turn moves left while it is less than its left neighbour
RECURSIVE InsertUpdater(_, _)
InsertUpdater(s, x) ==
    IF s = <<>> THEN <<x>>
    ELSE IF UpdaterLess(x, s[Len(s)])
         THEN Append(InsertUpdater(SubSeq(s, 1, Len(s) - 1), x), s[Len(s)])
         ELSE Append(s, x)

RECURSIVE sortUpdaterEntries(_)
sortUpdaterEntries(entries) ==
    IF entries = <<>> THEN <<>>
    ELSE InsertUpdater(sortUpdaterEntries(SubSeq(entries, 1, Len(entries) - 1)),
                       entries[Len(entries)])

\* sort.SliceStable on drawers
RECURSIVE InsertDrawer(_, _)
InsertDrawer(s, x) ==
    IF s = <<>> THEN <<x>>
    ELSE IF DrawerLess(x, s[Len(s)])
         THEN Append(InsertDrawer(SubSeq(s, 1, Len(s) - 1), x), s[Len(s)])
         ELSE Append(s, x)

RECURSIVE sortDrawerEntries(_)
sortDrawerEntries(entries) ==
    IF entries = <<>> THEN <<>>
    ELSE InsertDrawer(sortDrawerEntries(SubSeq(entries, 1, Len(entries) - 1)),
                      entries[Len(entries)])

\* capacity append() gives a slice of pointers that outgrew capacity oldCap
GrowCap(oldCap, newLen) == IF newLen > 2 * oldCap THEN newLen ELSE 2 * oldCap

\* ------------------------------------------------ registration, as data
\* The registration code is a function of the scheduler's fields.  `st` is
\* a record of those fields; pc/rangeView/rangeShared describe the range
\* loop that may be running over one of the two backing arrays.

\* ecs.addUpdater(entry)
addUpdater(st, entry) ==
    LET newLen == Len(st.updaters) + 1
        inPlace == newLen <= st.updCap
        sorted == sortUpdaterEntries(Append(st.updaters, entry))
        ranged == st.pc = "update" /\ st.rangeShared
    IN [st EXCEPT
          !.updaters = sorted,
          !.updCap = IF inPlace THEN @ ELSE GrowCap(@, newLen),
          !.rangeView = IF ranged /\ inPlace
                        THEN SubSeq(sorted, 1, Len(@)) ELSE @,
          !.rangeShared = IF ranged /\ ~inPlace THEN FALSE ELSE @]

\* addDrawer that replaces an entry the same Drawer already has
addDrawerReplacing(st, entry) ==
    LET kept == SelectSeq(st.drawers, LAMBDA e : e.Drawer /= entry.Drawer)
        newLen == Len(kept) + 1
        inPlace == newLen <= st.drwCap
        sorted == sortDrawerEntries(Append(kept, entry))
        ranged == st.pc = "draw" /\ st.rangeShared
    IN [st EXCEPT
          !.drawers = sorted,
          !.drwCap = IF inPlace THEN @ ELSE GrowCap(@, newLen),
          !.rangeView = IF ranged /\ inPlace
                        THEN SubSeq(sorted, 1, Len(@)) ELSE @,
          !.rangeShared = IF ranged /\ ~inPlace THEN FALSE ELSE @]

\* ecs.addDrawer(entry)
addDrawer(st, entry) ==
    LET newLen == Len(st.drawers) + 1
        inPlace == newLen <= st.drwCap
        sorted == sortDrawerEntries(Append(st.drawers, entry))
        ranged == st.pc = "draw" /\ st.rangeShared
    IN [st EXCEPT
          !.drawers = sorted,
          !.drwCap = IF inPlace THEN @ ELSE GrowCap(@, newLen),
          !.rangeView = IF ranged /\ inPlace
                        THEN SubSeq(sorted, 1, Len(@)) ELSE @,
          !.rangeShared = IF ranged /\ ~inPlace THEN FALSE ELSE @]

\* opts == nil is replaced by &SystemOpts{}
OptsOrDefault(opts) ==
    IF opts.isNil THEN [isNil |-> FALSE, Priority |-> 0, Image |-> NoImage]
    ELSE opts

\* AddSystem without its final panic
AddSystemNoPanic(st, system, opts) ==
    LET o == OptsOrDefault(opts)
        s1 == IF IsUpdater(system)
              THEN addUpdater(st, [Updater |-> system, Priority |-> o.Priority,
                                   id |-> st.nextId])
              ELSE st
        s2 == IF IsDrawer(system)
              THEN addDrawer(s1, [Drawer |-> system, Priority |-> o.Priority,
                                  Image |-> o.Image, id |-> st.nextId])
              ELSE s1
    IN [s2 EXCEPT !.nextId = @ + 1]

\* AddSystem that forgets to copy the priority into the drawer entry
AddSystemDrawerNoPriority(st, system, opts) ==
    LET o == OptsOrDefault(opts)
        s1 == IF IsUpdater(system)
              THEN addUpdater(st, [Updater |-> system, Priority |-> o.Priority,
                                   id |-> st.nextId])
              ELSE st
        s2 == IF IsDrawer(system)
              THEN addDrawer(s1, [Drawer |-> system, Priority |-> 0,
                                  Image |-> o.Image, id |-> st.nextId])
              ELSE s1
        flag == IsUpdater(system) \/ IsDrawer(system)
    IN IF flag THEN [s2 EXCEPT !.nextId = @ + 1]
       ELSE [s2 EXCEPT !.panicked = TRUE]

\* ecs.AddSystem(system, opts); the result's panicked field tells whether
\* the call ended in the panic of its last statement
AddSystemF(st, system, opts) ==
    LET o == OptsOrDefault(opts)
        s1 == IF IsUpdater(system)
              THEN addUpdater(st, [Updater |-> system, Priority |-> o.Priority,
                                   id |-> st.nextId])
              ELSE st
        s2 == IF IsDrawer(system)
              THEN addDrawer(s1, [Drawer |-> system, Priority |-> o.Priority,
                                  Image |-> o.Image, id |-> st.nextId])
              ELSE s1
        flag == IsUpdater(system) \/ IsDrawer(system)
    IN IF flag THEN [s2 EXCEPT !.nextId = @ + 1]
       ELSE [s2 EXCEPT !.panicked = TRUE]

\* AddSystems that checks the whole batch before it registers anything
RECURSIVE RegisterAll(_, _)
RegisterAll(st, systems) ==
    IF systems = <<>> THEN st
    ELSE RegisterAll(AddSystemF(st, Head(systems), NilOpts), Tail(systems))

AddSystemsAtomic(st, systems) ==
    IF \E i \in 1..Len(systems) : ~IsUpdater(systems[i]) /\ ~IsDrawer(systems[i])
    THEN [st EXCEPT !.panicked = TRUE]
    ELSE RegisterAll(st, systems)

\* ecs.AddSystems(systems...): AddSystem(system, nil) for each, in order;
\* a panic leaves the loop
RECURSIVE AddSystemsF(_, _)
AddSystemsF(st, systems) ==
    IF systems = <<>> \/ st.panicked THEN st
    ELSE AddSystemsF(AddSystemF(st, Head(systems), NilOpts), Tail(systems))

\* the fields of a scheduler whose registries are the empty literals
EmptyECS ==
    [updaters |-> <<>>, updCap |-> 0, drawers |-> <<>>, drwCap |-> 0,
     nextId |-> 1, pc |-> "idle", rangeView |-> <<>>, rangeShared |-> FALSE,
     panicked |-> FALSE]

\* NewECS(w): empty registries, then the script system registered with
\* &SystemOpts{}
NewECS ==
    AddSystemF(EmptyECS, ScriptSystem,
               [isNil |-> FALSE, Priority |-> 0, Image |-> NoImage])

\* the current scheduler fields as a record
Cur ==
    [updaters |-> updaters, updCap |-> updCap, drawers |-> drawers,
     drwCap |-> drwCap, nextId |-> nextId, pc |-> pc,
     rangeView |-> rangeView, rangeShared |-> rangeShared, panicked |-> FALSE]

\* store the registry fields of st
SetECS(st) ==
    /\ updaters' = st.updaters
    /\ updCap' = st.updCap
    /\ drawers' = st.drawers
    /\ drwCap' = st.drwCap
    /\ nextId' = st.nextId

\* the record of a call: systems is the argument list of AddSystems, image
\* the image AddSystem was given for a Drawer
Op(op, system, priority, panicked) ==
    [op |-> op, system |-> system, priority |-> priority, panicked |-> panicked,
     systems |-> <<>>, image |-> NoImage]

\* the record of a call of AddSystem(system, opts)
AddSystemOp(system, opts, panicked) ==
    [Op("AddSystem", system, OptsOrDefault(opts).Priority, panicked)
       EXCEPT !.image = IF IsDrawer(system) THEN OptsOrDefault(opts).Image
                        ELSE NoImage]

\* ------------------------------------------------------- script system
\* what a script object handed to AddScript implements
ScriptObjects == {"eboth", "enone"}
EntryScripts == {"eupd", "edrw", "eboth"}
IsEntryUpdater(script) == script \in {"eupd", "eboth"}
IsEntryDrawer(script) == script \in {"edrw", "eboth"}
Queries == {"qX"}
ScriptOptsInputs ==
    {NilOpts, [isNil |-> FALSE, Priority |-> 1, Image |-> "imgA"]}

\* ScriptSystem.AddScript(q, script, opts): appends a binding, panics when
\* the script implements neither entry interface
ScriptSystemAddScript(bindings, q, script, opts) ==
    IF ~IsEntryUpdater(script) /\ ~IsEntryDrawer(script)
    THEN [bindings |-> bindings, panicked |-> TRUE]
    ELSE [bindings |-> Append(bindings,
                        [query |-> q, script |-> script,
                         Priority |-> OptsOrDefault(opts).Priority,
                         Image |-> OptsOrDefault(opts).Image]),
          panicked |-> FALSE]

\* ---------------------------------------------------------- the store
\* the entities the world can hold and the components each carries
Entities == {"e1", "e2"}
Components(e) == IF e = "e1" THEN {"X"} ELSE {"X", "Y"}

\* the queries scripts are attached to: qX matches both entities, qY one
StoreQueries == {"qX", "qY"}
Matches(q, e) == (q = "qX" /\ "X" \in Components(e))
                 \/ (q = "qY" /\ "Y" \in Components(e))

\* a query evaluation that keeps yielding the entities it once yielded
QueryEntitiesCached(q, st) == {e \in st \cup everCalled : Matches(q, e)}

\* evaluation of query q against the store: the live entities matching it
QueryEntities(q, st) == {e \in st : Matches(q, e)}

\* the orders in which the store may yield the entities of S
RECURSIVE Perms(_)
Perms(S) ==
    IF S = {} THEN {<<>>}
    ELSE UNION {{<<e>> \o p : p \in Perms(S \ {e})} : e \in S}

\* bindings taken by decreasing priority
BindingOrderByPriority(bindings) ==
    LET n == Len(bindings)
        Before(i, j) == bindings[i].Priority > bindings[j].Priority
                        \/ (bindings[i].Priority = bindings[j].Priority /\ i < j)
    IN [k \in 1..n |->
          CHOOSE i \in 1..n : Cardinality({j \in 1..n : Before(j, i)}) = k - 1]

\* the order in which the script system walks its bindings: insertion order
BindingOrder(bindings) == [k \in 1..Len(bindings) |-> k]

\* whether the script of a binding has the per-entity method of the pass
HasEntryMethod(script, method) ==
    IF method = "Update" THEN IsEntryUpdater(script) ELSE IsEntryDrawer(script)

\* the per-entity invocations of one run of the script system's Update or
\* Draw entry point: binding after binding in order, each on the entities
\* its query yields now, in any order; run is the position of the script
\* system's invocation in the pass, image the image it was handed
RECURSIVE ScriptSystemRun(_, _, _, _, _, _)
ScriptSystemRun(bindings, order, st, method, image, run) ==
    IF order = <<>> THEN {<<>>}
    ELSE LET b == bindings[Head(order)]
             ents == IF HasEntryMethod(b.script, method)
                     THEN QueryEntities(b.query, st) ELSE {}
             these == {[k \in 1..Len(p) |->
                          [run |-> run, binding |-> Head(order), entity |-> p[k],
                           method |-> method, image |-> image]] : p \in Perms(ents)}
         IN {h \o t : h \in these,
                       t \in ScriptSystemRun(bindings, Tail(order), st, method,
                                             image, run)}

\* the calls made before a run stopped
Prefixes(l) == {SubSeq(l, 1, k) : k \in 0..Len(l)}

\* what the invocation of participant sys adds to the per-entity log: only
\* the script system adds anything, and a panic stops it part-way
EntryCalls(sys, beh, bindings, st, method, image, run) ==
    IF sys /= ScriptSystem THEN {<<>>}
    ELSE LET full == ScriptSystemRun(bindings, BindingOrder(bindings), st,
                                     method, image, run)
         IN IF beh.kind = "panic"
            THEN UNION {Prefixes(l) : l \in full}
            ELSE full

\* ------------------------------------------------ what participants do
\* the body of a participant's Update(ecs) / Draw(ecs, image): it returns,
\* panics, or calls ecs.AddSystem and returns
Behaviours ==
    {[kind |-> "return", system |-> "-", opts |-> NilOpts],
     [kind |-> "panic", system |-> "-", opts |-> NilOpts]}
    \cup [kind : {"AddSystem"}, system : UserSystems, opts : BodyOpts]

\* the scheduler fields after the participant's body ran
AfterBody(st, beh) ==
    IF beh.kind = "AddSystem" THEN AddSystemF(st, beh.system, beh.opts)
    ELSE IF beh.kind = "panic" THEN [st EXCEPT !.panicked = TRUE]
    ELSE st

BodyOp(beh, panicked) ==
    IF beh.kind = "AddSystem"
    THEN AddSystemOp(beh.system, beh.opts, panicked)
    ELSE Op(beh.kind, "-", 0, panicked)

\* Draw that ignores the drawer's own image
DrawImageAlwaysScreen(d, scr) == scr

\* the image handed to a drawer by Draw(screen)
DrawImage(d, scr) == IF d.Image /= NoImage THEN d.Image ELSE scr

\* ----------------------------------------------------------------- Init
Init ==
    /\ updaters = NewECS.updaters
    /\ updCap = NewECS.updCap
    /\ drawers = NewECS.drawers
    /\ drwCap = NewECS.drwCap
    /\ nextId = NewECS.nextId
    /\ scripts = <<>>
    /\ clock = 0
    /\ pc = "idle"
    /\ idx = 0
    /\ rangeView = <<>>
    /\ rangeShared = FALSE
    /\ screen = NoImage
    /\ calls = <<>>
    /\ passKind = "none"
    /\ passEnd = "none"
    /\ passStart = <<>>
    /\ passReg = FALSE
    /\ prevPassReg = FALSE
    /\ passNextId = 0
    /\ ticksEnded = 0
    /\ store = {}
    /\ scriptCalls = <<>>
    /\ everCalled = {}
    /\ lastOp = Op("NewECS", "-", 0, FALSE)

\* -------------------------------------------------------------- actions
\* what a top-level API call leaves of the previous pass: its record is
\* dropped, the range loop is gone
NoPass ==
    /\ pc' = "idle"
    /\ idx' = 0
    /\ rangeView' = <<>>
    /\ rangeShared' = FALSE
    /\ screen' = NoImage
    /\ calls' = <<>>
    /\ passKind' = "none"
    /\ passEnd' = "none"
    /\ passStart' = <<>>
    /\ passReg' = FALSE
    /\ prevPassReg' = FALSE
    /\ passNextId' = 0
    /\ scriptCalls' = <<>>

\* the host calls ecs.AddSystem(system, opts) between passes
AddSystem(system, opts, lim) ==
    /\ pc = "idle"
    /\ nextId - 2 < lim
    /\ LET st == AddSystemF(Cur, system, opts)
       IN /\ SetECS(st)
          /\ lastOp' = AddSystemOp(system, opts, st.panicked)
    /\ NoPass
    /\ UNCHANGED <<scripts, clock, ticksEnded, store, everCalled>>

\* the host calls ecs.AddSystems(systems...) between passes
AddSystems(systems, lim) ==
    /\ pc = "idle"
    /\ nextId - 2 + Len(systems) <= lim
    /\ LET st == AddSystemsF(Cur, systems)
       IN /\ SetECS(st)
          /\ lastOp' = [Op("AddSystems", "-", 0, st.panicked)
                           EXCEPT !.systems = systems]
    /\ NoPass
    /\ UNCHANGED <<scripts, clock, ticksEnded, store, everCalled>>

\* AddScript that also registers the script system under the script's
\* options
AddScriptRegisters(q, script, opts) ==
    /\ pc = "idle"
    /\ Len(scripts) < MaxScripts
    /\ LET r == ScriptSystemAddScript(scripts, q, script, opts)
       IN /\ scripts' = r.bindings
          /\ lastOp' = Op("AddScript", script, OptsOrDefault(opts).Priority,
                          r.panicked)
    /\ SetECS(AddSystemF(Cur, ScriptSystem, opts))
    /\ NoPass
    /\ UNCHANGED <<clock, ticksEnded, store, everCalled>>

\* the host calls ecs.AddScript(q, script, opts) between passes
AddScript(q, script, opts) ==
    /\ pc = "idle"
    /\ Len(scripts) < MaxScripts
    /\ LET r == ScriptSystemAddScript(scripts, q, script, opts)
       IN /\ scripts' = r.bindings
          /\ lastOp' = Op("AddScript", script, OptsOrDefault(opts).Priority,
                       r.panicked)
    /\ NoPass
    /\ UNCHANGED <<updaters, updCap, drawers, drwCap, nextId, clock,
                   ticksEnded, store, everCalled>>

\* the host adds entity e to the world between passes
CreateEntity(e) ==
    /\ pc = "idle"
    /\ e \notin store
    /\ store' = store \cup {e}
    /\ lastOp' = Op("CreateEntity", e, 0, FALSE)
    /\ NoPass
    /\ UNCHANGED <<updaters, updCap, drawers, drwCap, nextId, scripts, clock,
                   ticksEnded, everCalled>>

\* the host removes entity e from the world between passes
RemoveEntity(e) ==
    /\ pc = "idle"
    /\ e \in store
    /\ store' = store \ {e}
    /\ lastOp' = Op("RemoveEntity", e, 0, FALSE)
    /\ NoPass
    /\ UNCHANGED <<updaters, updCap, drawers, drwCap, nextId, scripts, clock,
                   ticksEnded, everCalled>>

\* Update whose loop starts at the second entry
StartUpdateSkipFirst ==
    /\ pc = "idle"
    /\ clock < MaxTicks
    /\ clock' = clock + 1
    /\ pc' = "update"
    /\ idx' = 2
    /\ rangeView' = updaters
    /\ rangeShared' = TRUE
    /\ screen' = NoImage
    /\ calls' = <<>>
    /\ passKind' = "update"
    /\ passEnd' = "running"
    /\ passStart' = updaters
    /\ passReg' = FALSE
    /\ passNextId' = nextId
    /\ scriptCalls' = <<>>
    /\ lastOp' = Op("Update", "-", 0, FALSE)
    /\ UNCHANGED <<updaters, updCap, drawers, drwCap, nextId, scripts,
                   ticksEnded, store, everCalled>>

\* Update that does not advance the clock
StartUpdateNoClock ==
    /\ pc = "idle"
    /\ ticksEnded < MaxTicks
    /\ clock' = clock
    /\ pc' = "update"
    /\ idx' = 1
    /\ rangeView' = updaters
    /\ rangeShared' = TRUE
    /\ screen' = NoImage
    /\ calls' = <<>>
    /\ passKind' = "update"
    /\ passEnd' = "running"
    /\ passStart' = updaters
    /\ passReg' = FALSE
    /\ passNextId' = nextId
    /\ scriptCalls' = <<>>
    /\ lastOp' = Op("Update", "-", 0, FALSE)
    /\ UNCHANGED <<updaters, updCap, drawers, drwCap, nextId, scripts,
                   ticksEnded, store, everCalled>>

\* ecs.Update() up to the evaluation of its range expression: the clock
\* is advanced, then the loop takes the slice ecs.updaters
StartUpdate ==
    /\ pc = "idle"
    /\ clock < MaxTicks
    /\ clock' = clock + 1
    /\ pc' = "update"
    /\ idx' = 1
    /\ rangeView' = updaters
    /\ rangeShared' = TRUE
    /\ screen' = NoImage
    /\ calls' = <<>>
    /\ passKind' = "update"
    /\ passEnd' = "running"
    /\ passStart' = updaters
    /\ passReg' = FALSE
    /\ passNextId' = nextId
    /\ scriptCalls' = <<>>
    /\ lastOp' = Op("Update", "-", 0, FALSE)
    /\ UNCHANGED <<updaters, updCap, drawers, drwCap, nextId, scripts,
                   ticksEnded, store, everCalled>>

\* Draw that advances the clock as Update does
StartDrawAdvancesClock(scr) ==
    /\ pc = "idle"
    /\ clock < MaxTicks
    /\ clock' = clock + 1
    /\ pc' = "draw"
    /\ idx' = 1
    /\ rangeView' = drawers
    /\ rangeShared' = TRUE
    /\ screen' = scr
    /\ calls' = <<>>
    /\ passKind' = "draw"
    /\ passEnd' = "running"
    /\ passStart' = drawers
    /\ passReg' = FALSE
    /\ passNextId' = nextId
    /\ scriptCalls' = <<>>
    /\ lastOp' = Op("Draw", "-", 0, FALSE)
    /\ UNCHANGED <<updaters, updCap, drawers, drwCap, nextId, scripts,
                   ticksEnded, store, everCalled>>

\* ecs.Draw(scr) up to the evaluation of its range expression
StartDraw(scr) ==
    /\ pc = "idle"
    /\ pc' = "draw"
    /\ idx' = 1
    /\ rangeView' = drawers
    /\ rangeShared' = TRUE
    /\ screen' = scr
    /\ calls' = <<>>
    /\ passKind' = "draw"
    /\ passEnd' = "running"
    /\ passStart' = drawers
    /\ passReg' = FALSE
    /\ passNextId' = nextId
    /\ scriptCalls' = <<>>
    /\ lastOp' = Op("Draw", "-", 0, FALSE)
    /\ UNCHANGED <<updaters, updCap, drawers, drwCap, nextId, scripts, clock,
                   ticksEnded, store, everCalled>>

\* the part of a loop iteration common to Update and Draw: the body of the
\* participant has produced st; a panic leaves the pass, otherwise the loop
\* moves on and the call returns after the last cell of the range
Iterate(st, beh) ==
    /\ SetECS(st)
    /\ rangeView' = st.rangeView
    /\ rangeShared' = st.rangeShared
    /\ passReg' = (passReg \/ beh.kind = "AddSystem")
    /\ lastOp' = BodyOp(beh, st.panicked)
    /\ idx' = idx + 1
    /\ IF st.panicked THEN pc' = "idle" /\ passEnd' = "panicked"
       ELSE IF idx + 1 > Len(rangeView) THEN pc' = "idle" /\ passEnd' = "returned"
       ELSE pc' = pc /\ passEnd' = passEnd
    /\ UNCHANGED <<scripts, clock, screen, passKind, passStart, passNextId,
                   prevPassReg, store>>

\* one iteration of Update's loop: u.Updater.Update(ecs)
InvokeUpdater(beh, lim) ==
    /\ pc = "update"
    /\ idx <= Len(rangeView)
    /\ beh.kind = "AddSystem" => nextId - 2 < lim
    /\ LET u == rangeView[idx]
           st == AfterBody(Cur, beh)
       IN /\ calls' = Append(calls, [id |-> u.id, sys |-> u.Updater,
                                     method |-> "Update",
                                     image |-> NoImage, clock |-> clock])
          /\ \E log \in EntryCalls(u.Updater, beh, scripts, store, "Update",
                                    NoImage, Len(calls) + 1) :
                /\ scriptCalls' = scriptCalls \o log
                /\ everCalled' = everCalled \cup
                                    {log[i].entity : i \in 1..Len(log)}
          /\ Iterate(st, beh)
          /\ ticksEnded' = IF st.panicked \/ idx + 1 > Len(rangeView)
                           THEN ticksEnded + 1 ELSE ticksEnded

\* one iteration of Draw's loop: d.Drawer.Draw(ecs, d.Image or screen)
InvokeDrawer(beh, lim) ==
    /\ pc = "draw"
    /\ idx <= Len(rangeView)
    /\ beh.kind = "AddSystem" => nextId - 2 < lim
    /\ LET d == rangeView[idx]
           st == AfterBody(Cur, beh)
       IN /\ calls' = Append(calls, [id |-> d.id, sys |-> d.Drawer,
                                     method |-> "Draw",
                                     image |-> DrawImage(d, screen),
                                     clock |-> clock])
          /\ \E log \in EntryCalls(d.Drawer, beh, scripts, store, "Draw",
                                    DrawImage(d, screen), Len(calls) + 1) :
                /\ scriptCalls' = scriptCalls \o log
                /\ everCalled' = everCalled \cup
                                    {log[i].entity : i \in 1..Len(log)}
          /\ Iterate(st, beh)
    /\ UNCHANGED ticksEnded

\* what Update() and Draw() record, as they begin, of the pass that ended
\* right before them: nothing, or whether a participant registered during it
ForgetPass == prevPassReg' = FALSE
RememberPass == prevPassReg' = passReg

SystemLists == {<<a>> : a \in UserSystems} \cup
               {<<a, b>> : a \in UserSystems, b \in UserSystems}

\* the scheduler with at most MaxReg registrations
Next ==
    \/ \E system \in UserSystems, opts \in OptsInputs : AddSystem(system, opts, MaxReg)
    \/ \E systems \in SystemLists : AddSystems(systems, MaxReg)
    \/ StartUpdate /\ ForgetPass
    \/ \E beh \in Behaviours : InvokeUpdater(beh, MaxReg)
    \/ StartDraw(Screen) /\ ForgetPass
    \/ \E beh \in Behaviours : InvokeDrawer(beh, MaxReg)

Spec == Init /\ [][Next]_vars

\* the scheduler with more registrations, so that a registry is iterated
\* while its backing array has room left; the host registers with nil
\* options, participants register with any priority; a pass remembers
\* whether participants registered during the pass before it
NextDeep ==
    \/ \E system \in UserSystems : AddSystem(system, NilOpts, MaxRegDeep)
    \/ \E systems \in SystemLists : AddSystems(systems, MaxRegDeep)
    \/ StartUpdate /\ RememberPass
    \/ \E beh \in Behaviours : InvokeUpdater(beh, MaxRegDeep)
    \/ StartDraw(Screen) /\ RememberPass
    \/ \E beh \in Behaviours : InvokeDrawer(beh, MaxRegDeep)

SpecDeep == Init /\ [][NextDeep]_vars

\* the scheduler together with script attachment
NextScripts ==
    \/ \E system \in UserSystems, opts \in OptsInputs :
          AddSystem(system, opts, MaxRegScripts)
    \/ \E systems \in SystemLists : AddSystems(systems, MaxRegScripts)
    \/ \E q \in Queries, script \in ScriptObjects, opts \in ScriptOptsInputs :
          AddScript(q, script, opts)
    \/ StartUpdate /\ ForgetPass
    \/ \E beh \in Behaviours : InvokeUpdater(beh, MaxRegScripts)
    \/ StartDraw(Screen) /\ ForgetPass
    \/ \E beh \in Behaviours : InvokeDrawer(beh, MaxRegScripts)

SpecScripts == Init /\ [][NextScripts]_vars

\* the script system at work: scripts are attached to queries, entities
\* come and go between passes, the registries hold the script system alone
NextStore ==
    \/ \E q \in StoreQueries, script \in EntryScripts, opts \in ScriptOptsInputs :
          AddScript(q, script, opts)
    \/ \E e \in Entities : CreateEntity(e)
    \/ \E e \in Entities : RemoveEntity(e)
    \/ StartUpdate /\ ForgetPass
    \/ \E beh \in Behaviours : InvokeUpdater(beh, 0)
    \/ StartDraw(Screen) /\ ForgetPass
    \/ \E beh \in Behaviours : InvokeDrawer(beh, 0)

SpecStore == Init /\ [][NextStore]_vars

\* the script system in a registry with room left in its backing array:
\* the host registers Updaters with nil options, a script registers one
\* more from its per-entity update
NextStoreDeep ==
    \/ AddSystem("upd", NilOpts, MaxRegDeep)
    \/ AddScript("qX", "eupd", NilOpts)
    \/ CreateEntity("e1")
    \/ StartUpdate /\ ForgetPass
    \/ \E beh \in {b \in Behaviours : b.kind = "return"
                        \/ (b.kind = "AddSystem" /\ b.system = "upd")} :
          InvokeUpdater(beh, MaxRegDeep)

SpecStoreDeep == Init /\ [][NextStoreDeep]_vars

\* ------------------------------------------------------------ properties
\* how many of the invocations in log went to the entry with identity id
Count(log, id) == Cardinality({i \in 1..Len(log) : log[i].id = id})

\* position of the entry with identity id in reg, 0 when it is not there
Pos(reg, id) ==
    IF \E i \in 1..Len(reg) : reg[i].id = id
    THEN CHOOSE i \in 1..Len(reg) : reg[i].id = id
    ELSE 0

\* reg is in non-increasing priority order
SortedDesc(reg) ==
    \A i, j \in 1..Len(reg) : i < j => reg[i].Priority >= reg[j].Priority

\* entries of equal priority are in the order they were registered
TiesInRegistrationOrder(reg) ==
    \A i, j \in 1..Len(reg) :
        (i < j /\ reg[i].Priority = reg[j].Priority) => reg[i].id < reg[j].id

\* C1: after NewECS and after every registration both registries are in
\* non-increasing priority order, entries of equal priority in the order
\* they were registered.
RegistriesSorted ==
    /\ SortedDesc(updaters) /\ TiesInRegistrationOrder(updaters)
    /\ SortedDesc(drawers) /\ TiesInRegistrationOrder(drawers)

\* a later registration of higher priority has moved in front of the script
\* system while an equal-priority one stayed behind it, in both registries
RegistriesSortedWitness ==
    /\ Len(updaters) = 3 /\ Len(drawers) = 3
    /\ updaters[1].id > updaters[2].id
    /\ updaters[2].Priority = updaters[3].Priority
    /\ drawers[1].id > drawers[2].id
    /\ drawers[2].Priority = drawers[3].Priority

\* C2: an Update() that returned, during which nobody registered, invoked
\* every updater exactly once, in registry order: non-increasing priority,
\* equal priorities in registration order.
UpdateInvokesAllInOrder ==
    (passKind = "update" /\ passEnd = "returned" /\ ~passReg) =>
        /\ Len(calls) = Len(updaters)
        /\ \A i \in 1..Len(updaters) :
              /\ calls[i].id = updaters[i].id
              /\ calls[i].sys = updaters[i].Updater
              /\ Count(calls, updaters[i].id) = 1
        /\ \A i, j \in 1..Len(calls) : i < j =>
              LET pi == passStart[Pos(passStart, calls[i].id)].Priority
                  pj == passStart[Pos(passStart, calls[j].id)].Priority
              IN pi > pj \/ (pi = pj /\ calls[i].id < calls[j].id)

\* a returned tick over three updaters of which the last registered ran first
UpdateInvokesAllInOrderWitness ==
    /\ passKind = "update" /\ passEnd = "returned" /\ ~passReg
    /\ Len(calls) = 3
    /\ calls[1].id = 3
    /\ calls[2].id < calls[3].id

\* C3: AddSystem of a system that is neither Updater nor Drawer panics and
\* leaves both registries as they were, between passes and inside one.
AddSystemNeitherPanics ==
    [][(lastOp'.op = "AddSystem" /\ ~IsUpdater(lastOp'.system)
            /\ ~IsDrawer(lastOp'.system)) =>
          /\ lastOp'.panicked
          /\ updaters' = updaters /\ updCap' = updCap
          /\ drawers' = drawers /\ drwCap' = drwCap]_vars

\* such an AddSystem has just panicked on registries holding registrations
AddSystemNeitherPanicsWitness ==
    /\ lastOp.op = "AddSystem" /\ lastOp.system = "none" /\ lastOp.panicked
    /\ Len(updaters) > 1 /\ Len(drawers) > 1

\* C4: when a participant registers a system during a pass, every entry
\* that was in the iterated registry when the pass began is invoked at most
\* once while the pass runs and exactly once when it has returned.
RegistrationDuringPassKeepsPass ==
    (passKind /= "none" /\ passReg) =>
        \A i \in 1..Len(passStart) :
            /\ Count(calls, passStart[i].id) <= 1
            /\ passEnd = "returned" => Count(calls, passStart[i].id) = 1

\* C5: a Draw(screen) that returned, during which nobody registered,
\* invoked every drawer exactly once in registry order, each with its own
\* Image when it has one and with screen otherwise.
DrawInvokesAllWithOwnImage ==
    (passKind = "draw" /\ passEnd = "returned" /\ ~passReg) =>
        /\ Len(calls) = Len(drawers)
        /\ \A i \in 1..Len(drawers) :
              /\ calls[i].id = drawers[i].id
              /\ calls[i].sys = drawers[i].Drawer
              /\ Count(calls, drawers[i].id) = 1
              /\ drawers[i].Image /= NoImage => calls[i].image = drawers[i].Image
              /\ drawers[i].Image = NoImage => calls[i].image = screen
        /\ \A i, j \in 1..Len(calls) : i < j =>
              LET pi == passStart[Pos(passStart, calls[i].id)].Priority
                  pj == passStart[Pos(passStart, calls[j].id)].Priority
              IN pi > pj \/ (pi = pj /\ calls[i].id < calls[j].id)

\* a returned frame over three drawers: two private images and the screen
DrawInvokesAllWithOwnImageWitness ==
    /\ passKind = "draw" /\ passEnd = "returned" /\ ~passReg
    /\ Len(calls) = 3
    /\ {calls[i].image : i \in 1..3} = {"imgA", "imgB", Screen}
    /\ calls[1].id > calls[2].id

\* what a successful AddSystem(system, opts) does to the registries: one
\* new entry of the given priority in each registry the system qualifies
\* for, the other entries and the other registry as they were
Without(reg, id) == SelectSeq(reg, LAMBDA e : e.id /= id)

Registered(system, priority) ==
    /\ IF IsUpdater(system)
       THEN /\ Len(updaters') = Len(updaters) + 1
            /\ Count(updaters', nextId) = 1
            /\ updaters'[Pos(updaters', nextId)].Updater = system
            /\ updaters'[Pos(updaters', nextId)].Priority = priority
            /\ Without(updaters', nextId) = updaters
       ELSE updaters' = updaters
    /\ IF IsDrawer(system)
       THEN /\ Len(drawers') = Len(drawers) + 1
            /\ Count(drawers', nextId) = 1
            /\ drawers'[Pos(drawers', nextId)].Drawer = system
            /\ drawers'[Pos(drawers', nextId)].Priority = priority
            /\ Without(drawers', nextId) = drawers
       ELSE drawers' = drawers

\* no pass invokes a system through an interface it does not implement
InvokedByCapability ==
    \A i \in 1..Len(calls) :
        /\ passKind = "update" => IsUpdater(calls[i].sys)
        /\ passKind = "draw" => IsDrawer(calls[i].sys)

\* C6: AddSystem gives an Updater-only system one entry in updaters and
\* none in drawers, a Drawer-only system one entry in drawers and none in
\* updaters, a system that is both one entry in each, all with the priority
\* of the options; so Draw never invokes an Updater-only system and Update
\* never a Drawer-only one.
AddSystemByCapability ==
    [][/\ (lastOp'.op = "AddSystem" /\ ~lastOp'.panicked) =>
              Registered(lastOp'.system, lastOp'.priority)
       /\ InvokedByCapability']_vars

\* a system that is both has just been registered with priority 1 and a
\* frame of an earlier state could not have invoked the Updater-only one
AddSystemByCapabilityWitness ==
    /\ lastOp = Op("AddSystem", "both", 1, FALSE)
    /\ \E i \in 1..Len(updaters), j \in 1..Len(drawers) :
          /\ updaters[i].id = nextId - 1 /\ drawers[j].id = nextId - 1
          /\ updaters[i].Priority = 1 /\ drawers[j].Priority = 1
    /\ \E i \in 1..Len(updaters) : updaters[i].Updater = "upd"

\* C7: NewECS leaves the script system as the only entry of both
\* registries, priority 0 and no image; afterwards it stays in front of
\* every other priority-0 entry, behind every entry of positive priority
\* and in front of every entry of negative priority, in both registries.
ScriptSystemFirstAmongDefault ==
    /\ lastOp.op = "NewECS" =>
          /\ updaters = <<[Updater |-> ScriptSystem, Priority |-> 0, id |-> 1]>>
          /\ drawers = <<[Drawer |-> ScriptSystem, Priority |-> 0,
                          Image |-> NoImage, id |-> 1]>>
    /\ Count(updaters, 1) = 1 /\ Count(drawers, 1) = 1
    /\ \A i \in 1..Len(updaters) :
          /\ (updaters[i].Priority = 0 /\ updaters[i].id /= 1)
                => Pos(updaters, 1) < i
          /\ updaters[i].Priority > 0 => i < Pos(updaters, 1)
          /\ updaters[i].Priority < 0 => Pos(updaters, 1) < i
    /\ \A i \in 1..Len(drawers) :
          /\ (drawers[i].Priority = 0 /\ drawers[i].id /= 1)
                => Pos(drawers, 1) < i
          /\ drawers[i].Priority > 0 => i < Pos(drawers, 1)
          /\ drawers[i].Priority < 0 => Pos(drawers, 1) < i

\* the script system between a positive-priority entry and a later
\* priority-0 entry in updaters, in front of a priority-0 entry in drawers
ScriptSystemFirstAmongDefaultWitness ==
    /\ Len(updaters) = 3
    /\ updaters[1].Priority > 0
    /\ updaters[2].id = 1
    /\ updaters[3].Priority = 0
    /\ Len(drawers) >= 2
    /\ drawers[1].id = 1
    /\ drawers[2].Priority = 0

\* C8: when a participant panics, the pass is left at once: of the entries
\* the registry held when the pass began, those in front of the failing one
\* have been invoked exactly once and those behind it not at all.
PanicAbortsPass ==
    (passEnd = "panicked" /\ Pos(passStart, calls[Len(calls)].id) > 0) =>
        LET f == Pos(passStart, calls[Len(calls)].id)
        IN \A j \in 1..Len(passStart) :
              /\ j < f => Count(calls, passStart[j].id) = 1
              /\ j > f => Count(calls, passStart[j].id) = 0

\* C9: every Update() advances the clock exactly once, before it invokes
\* its first updater: all updaters of a tick see the advanced clock, and the
\* clock counts the Update() calls made.
ClockAdvancedOncePerTick ==
    /\ clock = ticksEnded + (IF pc = "update" THEN 1 ELSE 0)
    /\ passKind = "update" =>
          /\ clock >= 1
          /\ \A i \in 1..Len(calls) : calls[i].clock = clock

\* the second tick has returned after invoking two updaters
ClockAdvancedOncePerTickWitness ==
    /\ passKind = "update" /\ passEnd = "returned"
    /\ clock = 2 /\ ticksEnded = 2
    /\ Len(calls) >= 2

\* C10: AddScript changes neither registry, whatever the script's options
\* and however many scripts are attached.
AddScriptLeavesRegistries ==
    [][lastOp'.op = "AddScript" =>
          /\ updaters' = updaters /\ updCap' = updCap
          /\ drawers' = drawers /\ drwCap' = drwCap]_vars

\* a second script, with priority 1 and an image, has just been attached to
\* a scheduler that holds a registered system
AddScriptLeavesRegistriesWitness ==
    /\ lastOp = Op("AddScript", "eboth", 1, FALSE)
    /\ Len(scripts) = 2
    /\ scripts[2].Priority = 1 /\ scripts[2].Image = "imgA"
    /\ Len(updaters) = 2

\* index of the first system of the list that is neither Updater nor
\* Drawer, one past the end of the list when there is none
FirstUnfit(systems) ==
    IF \E i \in 1..Len(systems) : ~IsUpdater(systems[i]) /\ ~IsDrawer(systems[i])
    THEN CHOOSE i \in 1..Len(systems) :
            /\ ~IsUpdater(systems[i]) /\ ~IsDrawer(systems[i])
            /\ \A j \in 1..(i - 1) : IsUpdater(systems[j]) \/ IsDrawer(systems[j])
    ELSE Len(systems) + 1

\* C13: AddSystems(s1..sn) does what AddSystem(si, nil) does for each si in
\* argument order: every system in front of the first unfit one gets its
\* entries with priority 0 and no image, in argument order; the call panics
\* at the first unfit system and registers nothing behind it.
AddSystemsAsAddSystemEach ==
    [][lastOp'.op = "AddSystems" =>
          LET systems == lastOp'.systems
              k == FirstUnfit(systems)
          IN /\ lastOp'.panicked = (k <= Len(systems))
             /\ nextId' = nextId + k - 1
             /\ SelectSeq(updaters', LAMBDA e : e.id < nextId) = updaters
             /\ SelectSeq(drawers', LAMBDA e : e.id < nextId) = drawers
             /\ \A i \in 1..Len(updaters') : updaters'[i].id < nextId + k - 1
             /\ \A i \in 1..Len(drawers') : drawers'[i].id < nextId + k - 1
             /\ \A j \in 1..(k - 1) :
                   LET id == nextId + j - 1
                   IN /\ IF IsUpdater(systems[j])
                         THEN /\ Count(updaters', id) = 1
                              /\ updaters'[Pos(updaters', id)] =
                                    [Updater |-> systems[j], Priority |-> 0,
                                     id |-> id]
                         ELSE Count(updaters', id) = 0
                      /\ IF IsDrawer(systems[j])
                         THEN /\ Count(drawers', id) = 1
                              /\ drawers'[Pos(drawers', id)] =
                                    [Drawer |-> systems[j], Priority |-> 0,
                                     Image |-> NoImage, id |-> id]
                         ELSE Count(drawers', id) = 0
             /\ \A i, j \in 1..Len(updaters') :
                   (i < j /\ updaters'[i].id >= nextId /\ updaters'[j].id >= nextId)
                      => updaters'[i].id < updaters'[j].id
             /\ \A i, j \in 1..Len(drawers') :
                   (i < j /\ drawers'[i].id >= nextId /\ drawers'[j].id >= nextId)
                      => drawers'[i].id < drawers'[j].id]_vars

\* AddSystems(both, none) has panicked at its second system with the first
\* one registered in both registries
AddSystemsAsAddSystemEachWitness ==
    /\ lastOp.op = "AddSystems" /\ lastOp.panicked
    /\ lastOp.systems = <<"both", "none">>
    /\ Pos(updaters, nextId - 1) > 0 /\ Pos(drawers, nextId - 1) > 0
    /\ updaters[Pos(updaters, nextId - 1)].Updater = "both"

\* old is what is left of new when the entries old does not hold are taken
\* out: every entry of old is in new, unchanged and in the same order
OnlyInserted(old, new) ==
    SelectSeq(new, LAMBDA e : \E i \in 1..Len(old) : old[i] = e) = old

\* C14: a registry changes by insertion only: no step removes an entry,
\* changes an entry's priority or image, or shortens a registry; the steps
\* of a pass in which no participant registers, and AddScript, leave both
\* registries as they are.
RegistriesOnlyGrow ==
    [][/\ OnlyInserted(updaters, updaters')
       /\ OnlyInserted(drawers, drawers')
       /\ Len(updaters') >= Len(updaters)
       /\ Len(drawers') >= Len(drawers)
       /\ lastOp'.op \in {"Update", "Draw", "return", "panic", "AddScript"} =>
             (updaters' = updaters /\ drawers' = drawers)]_vars

\* a frame over three drawers has returned without any registration, on
\* registries that hold a system registered twice
RegistriesOnlyGrowWitness ==
    /\ passKind = "draw" /\ passEnd = "returned" /\ ~passReg
    /\ Len(drawers) = 3
    /\ drawers[2].Drawer = drawers[3].Drawer
    /\ drawers = passStart

\* the system registered under identity id
SystemOf(id) ==
    IF Pos(updaters, id) > 0 THEN updaters[Pos(updaters, id)].Updater
    ELSE drawers[Pos(drawers, id)].Drawer

\* C16: when participants registered systems during a pass, the registries
\* are intact: the iterated registry still holds every entry it held when
\* the pass began, unchanged; every system registered during the pass has
\* exactly one entry in each registry it qualifies for; no entry occurs
\* twice; and both registries are sorted by non-increasing priority, ties
\* in registration order. The pass that follows such a pass, once it has
\* returned, has invoked every entry of the registry it began with exactly
\* once, in registry order.
RegistryIntactAfterRegistration ==
    /\ (passKind /= "none" /\ passReg) =>
          LET reg == IF passKind = "update" THEN updaters ELSE drawers
              new == passNextId..(nextId - 1)
          IN /\ \A i \in 1..Len(passStart) :
                   /\ Count(reg, passStart[i].id) = 1
                   /\ reg[Pos(reg, passStart[i].id)] = passStart[i]
             /\ \A id \in new :
                   /\ Pos(updaters, id) > 0 \/ Pos(drawers, id) > 0
                   /\ Count(updaters, id) = IF IsUpdater(SystemOf(id)) THEN 1 ELSE 0
                   /\ Count(drawers, id) = IF IsDrawer(SystemOf(id)) THEN 1 ELSE 0
             /\ \A i \in 1..Len(updaters) : Count(updaters, updaters[i].id) = 1
             /\ \A i \in 1..Len(drawers) : Count(drawers, drawers[i].id) = 1
             /\ Len(reg) = Len(passStart) +
                   Cardinality({id \in new : Pos(reg, id) > 0})
             /\ SortedDesc(updaters) /\ TiesInRegistrationOrder(updaters)
             /\ SortedDesc(drawers) /\ TiesInRegistrationOrder(drawers)
    /\ (prevPassReg /\ passEnd = "returned") =>
          /\ Len(calls) = Len(passStart)
          /\ \A i \in 1..Len(passStart) : calls[i].id = passStart[i].id

\* C17: two registrations that have an entry in both registries are in the
\* same relative order in updaters and in drawers.
SameOrderInBothRegistries ==
    \A i, j \in 1..Len(updaters) :
        (/\ i < j
         /\ Pos(drawers, updaters[i].id) > 0
         /\ Pos(drawers, updaters[j].id) > 0) =>
            Pos(drawers, updaters[i].id) < Pos(drawers, updaters[j].id)

\* three registrations present in both registries, the last registered
\* first and the second registered last in both
SameOrderInBothRegistriesWitness ==
    /\ Len(updaters) = 3 /\ Len(drawers) = 3
    /\ updaters[1].id = 3 /\ updaters[3].id = 2
    /\ drawers[1].id = 3 /\ drawers[3].id = 2

\* how many entries of the updaters / drawers sequence reg belong to system
UpdaterEntries(reg, system) ==
    Cardinality({i \in 1..Len(reg) : reg[i].Updater = system})

DrawerEntries(reg, system) ==
    Cardinality({i \in 1..Len(reg) : reg[i].Drawer = system})

\* how many invocations of log went to system
Invocations(log, system) ==
    Cardinality({i \in 1..Len(log) : log[i].sys = system})

\* C18: registration does not de-duplicate: every successful AddSystem adds
\* one more entry of that system, with the priority and image of that call,
\* to each registry it qualifies for, however many entries the system
\* already has; and every pass that returned has invoked each system as
\* many times as it had entries in the registry when the pass began.
NoDeduplication ==
    [][/\ (lastOp'.op = "AddSystem" /\ ~lastOp'.panicked) =>
             LET system == lastOp'.system
             IN /\ IsUpdater(system) =>
                      /\ UpdaterEntries(updaters', system)
                            = UpdaterEntries(updaters, system) + 1
                      /\ updaters'[Pos(updaters', nextId)] =
                            [Updater |-> system, Priority |-> lastOp'.priority,
                             id |-> nextId]
                /\ IsDrawer(system) =>
                      /\ DrawerEntries(drawers', system)
                            = DrawerEntries(drawers, system) + 1
                      /\ drawers'[Pos(drawers', nextId)] =
                            [Drawer |-> system, Priority |-> lastOp'.priority,
                             Image |-> lastOp'.image, id |-> nextId]
       /\ passEnd' = "returned" =>
             \A system \in UserSystems \cup {ScriptSystem} :
                /\ passKind' = "update" =>
                      Invocations(calls', system) = UpdaterEntries(passStart', system)
                /\ passKind' = "draw" =>
                      Invocations(calls', system) = DrawerEntries(passStart', system)]_vars

\* the invocations logged for a pass are of that pass's method, and an
\* Update invocation is handed no image
InvocationsOfThePass ==
    \A i \in 1..Len(calls) :
        /\ passKind = "draw" => calls[i].method = "Draw"
        /\ passKind = "update" =>
              (calls[i].method = "Update" /\ calls[i].image = NoImage)

\* C19: the two passes are separate: no step of Draw advances the clock or
\* ends a tick, Draw invokes only Draw methods, and Update invokes only
\* Update methods and hands them no image.
PassesAreSeparate ==
    [][/\ (pc = "draw" \/ lastOp'.op = "Draw") =>
             (clock' = clock /\ ticksEnded' = ticksEnded)
       /\ InvocationsOfThePass']_vars

\* after one tick, a frame has returned that drew a system which is also an
\* updater into its own image
PassesAreSeparateWitness ==
    /\ passKind = "draw" /\ passEnd = "returned"
    /\ clock = 1 /\ ticksEnded = 1
    /\ \E i \in 1..Len(calls) :
          /\ calls[i].sys = "both" /\ calls[i].image = "imgA"
          /\ Pos(updaters, calls[i].id) > 0

\* the per-entity invocations entity e received so far in the pass
EntryCallsOn(e) == {i \in 1..Len(scriptCalls) : scriptCalls[i].entity = e}

\* the bindings whose script has a per-entity update and whose query
\* entity e matches in the store as it is
UpdateBindingsOf(e) ==
    {b \in 1..Len(scripts) : /\ IsEntryUpdater(scripts[b].script)
                             /\ e \in QueryEntities(scripts[b].query, store)}

\* C11: a script is invoked only on entities the store holds at that tick
\* and its query matches: once an entity has been removed between two
\* ticks, no binding is invoked on it any more, with no unbinding.
RemovedEntityNotInvoked ==
    \A i \in 1..Len(scriptCalls) :
        /\ scriptCalls[i].entity \in store
        /\ Matches(scripts[scriptCalls[i].binding].query, scriptCalls[i].entity)

\* a tick returned in which scripts ran on a live entity, while an entity
\* that was invoked earlier and has been removed still matches every binding
RemovedEntityNotInvokedWitness ==
    /\ passKind = "update" /\ passEnd = "returned"
    /\ scriptCalls /= <<>>
    /\ \E e \in everCalled \ store :
          /\ EntryCallsOn(e) = {}
          /\ \A b \in 1..Len(scripts) : /\ Matches(scripts[b].query, e)
                                        /\ IsEntryUpdater(scripts[b].script)

\* C12: in a tick that returned, every entity received as many per-entity
\* updates as there are update-capable bindings whose query it matches.
OneUpdatePerMatchingBinding ==
    (passKind = "update" /\ passEnd = "returned") =>
        \A e \in Entities :
            Cardinality(EntryCallsOn(e)) = Cardinality(UpdateBindingsOf(e))

\* C15: within one invocation of the script system the bindings run in the
\* order they were attached, whatever their priorities, and every per-entity
\* call of that invocation gets the image the script system itself was
\* handed, whatever the image of its binding.
BindingsInAttachOrder ==
    /\ \A i, j \in 1..Len(scriptCalls) :
          (i < j /\ scriptCalls[i].run = scriptCalls[j].run) =>
              scriptCalls[i].binding <= scriptCalls[j].binding
    /\ \A i \in 1..Len(scriptCalls) :
          /\ scriptCalls[i].run \in 1..Len(calls)
          /\ calls[scriptCalls[i].run].sys = ScriptSystem
          /\ scriptCalls[i].image = calls[scriptCalls[i].run].image

\* a frame in which a binding attached second, with priority 1 and an image
\* of its own, drew after the first binding of priority 0, onto the screen
BindingsInAttachOrderWitness ==
    /\ passKind = "draw"
    /\ \E i, j \in 1..Len(scriptCalls) :
          /\ i < j
          /\ scripts[scriptCalls[i].binding].Priority
                < scripts[scriptCalls[j].binding].Priority
          /\ scripts[scriptCalls[j].binding].Image /= NoImage
          /\ scriptCalls[j].image = Screen
====
